---------------------------- MODULE Spec2Model ----------------------------
(***************************************************************************)
(* Model of dailyalerts (src/main.py): the indicator functions             *)
(* calculate_rsi, calculate_macd and simulate_mvrv, the report formatter   *)
(* generate_report with its notification sink send_alert, and the          *)
(* module-level loop over the assets Gold, Bitcoin, Ethereum.              *)
(*                                                                         *)
(* Numbers.  A pandas cell is a float: a finite number, +/-inf or NaN.     *)
(* Finite numbers are modelled as exact fractions n/d (d > 0), so that     *)
(* x/0 and 0/0 produce inf and NaN as IEEE-754 division does.  The         *)
(* exponential moving averages are modelled in fixed point (FIX units per  *)
(* 1.0, rounding towards minus infinity), which stands for the rounding    *)
(* of the float recurrence.                                                *)
(***************************************************************************)
EXTENDS Integers, Sequences, FiniteSets, TLC

VARIABLES
    pc,        \* position of the module-level code (main.py:134-143)
    i,         \* index of the asset the for loop is at
    df,        \* the module-level variable df (main.py:136)
    console,   \* what print() has written, in order
    charts,    \* the chart files savefig() has written in this run
    outbox,    \* the mails the SMTP server accepted
    okStages,  \* per asset, the stages that completed without raising
    failedAt,  \* per asset, the stage that raised and the exception
    attempts,  \* per asset, how many times the loop body started for it
    arg,       \* argument of a function applied on its own
    res        \* result of a function applied on its own

vars == <<pc, i, df, console, charts, outbox, okStages, failedAt, attempts, arg, res>>

---------------------------------------------------------------------------
(* Bounds of the model *)

MaxLen == 32        \* longest price series the indicator functions are applied to
BasePrice == 40     \* first price of a generated series (keeps every price > 0)
FIX == 10000        \* fixed-point units per 1.0 in the EMA recurrences

(* Constants of the program *)

DAYS == 180
RSI_WINDOW == 14
MACD_SHORT == 12
MACD_LONG == 26
MACD_SIGNAL == 9
MVRV_WINDOW == 30
RSI_OVERSOLD == 30

---------------------------------------------------------------------------
(* Float cells *)

Num(n, d) == [k |-> "num", n |-> n, d |-> d]
NaN == [k |-> "nan", n |-> 0, d |-> 1]
Inf(s) == [k |-> "inf", n |-> s, d |-> 1]
Zero == Num(0, 1)

IsNum(v) == v.k = "num"
IsNaN(v) == v.k = "nan"
Sign(n) == IF n > 0 THEN 1 ELSE IF n < 0 THEN -1 ELSE 0

RNeg(a) ==
    IF a.k = "nan" THEN NaN
    ELSE IF a.k = "inf" THEN Inf(-a.n)
    ELSE Num(-a.n, a.d)

RAdd(a, b) ==
    IF a.k = "nan" \/ b.k = "nan" THEN NaN
    ELSE IF a.k = "inf" /\ b.k = "inf" THEN (IF a.n = b.n THEN a ELSE NaN)
    ELSE IF a.k = "inf" THEN a
    ELSE IF b.k = "inf" THEN b
    ELSE IF a.d = b.d THEN Num(a.n + b.n, a.d)
    ELSE Num(a.n * b.d + b.n * a.d, a.d * b.d)

RSub(a, b) == RAdd(a, RNeg(b))

\* IEEE-754 division: x/0 is inf for x # 0 and NaN for x = 0; x/inf is 0.
RDiv(a, b) ==
    IF a.k = "nan" \/ b.k = "nan" THEN NaN
    ELSE IF a.k = "inf" /\ b.k = "inf" THEN NaN
    ELSE IF a.k = "inf" THEN (IF b.n < 0 THEN Inf(-a.n) ELSE a)
    ELSE IF b.k = "inf" THEN Zero
    ELSE IF b.n = 0 THEN (IF a.n = 0 THEN NaN ELSE Inf(Sign(a.n)))
    ELSE IF b.n > 0 THEN Num(a.n * b.d, a.d * b.n)
    ELSE Num(-(a.n * b.d), a.d * (-b.n))

\* Comparisons: every comparison with NaN is false.
RLt(a, b) ==
    IF a.k = "nan" \/ b.k = "nan" THEN FALSE
    ELSE IF a.k = "inf" THEN a.n < 0 /\ ~(b.k = "inf" /\ b.n < 0)
    ELSE IF b.k = "inf" THEN b.n > 0
    ELSE a.n * b.d < b.n * a.d

RGt(a, b) == RLt(b, a)

REq(a, b) ==
    IF a.k = "nan" \/ b.k = "nan" THEN FALSE
    ELSE IF a.k = "inf" \/ b.k = "inf" THEN a.k = b.k /\ a.n = b.n
    ELSE a.n * b.d = b.n * a.d

RLe(a, b) == RLt(a, b) \/ REq(a, b)

---------------------------------------------------------------------------
(* pandas Series operations used by the indicators; index j of the model   *)
(* is position j-1 of the Series.                                          *)

\* Series.diff()
Diff(s) == [j \in 1..Len(s) |-> IF j = 1 THEN NaN ELSE RSub(s[j], s[j-1])]

\* Series.clip(lower=0)
ClipLower0(s) ==
    [j \in 1..Len(s) |-> IF IsNaN(s[j]) THEN NaN
                         ELSE IF RLt(s[j], Zero) THEN Zero ELSE s[j]]

\* Series.clip(upper=0)
ClipUpper0(s) ==
    [j \in 1..Len(s) |-> IF IsNaN(s[j]) THEN NaN
                         ELSE IF RGt(s[j], Zero) THEN Zero ELSE s[j]]

NegSeries(s) == [j \in 1..Len(s) |-> RNeg(s[j])]

RECURSIVE SumRange(_, _, _)
SumRange(s, lo, hi) == IF lo > hi THEN Zero ELSE RAdd(SumRange(s, lo, hi - 1), s[hi])

RECURSIVE SumNums(_, _, _)
SumNums(s, lo, hi) ==
    IF lo > hi THEN Zero
    ELSE IF IsNum(s[hi]) THEN RAdd(SumNums(s, lo, hi - 1), s[hi])
    ELSE SumNums(s, lo, hi - 1)

\* rolling(window=w, min_periods=1): the mean of the numbers present in the window
RollingMeanMin1(s, w) ==
    [j \in 1..Len(s) |->
        LET lo == IF j - w + 1 < 1 THEN 1 ELSE j - w + 1
            nums == {t \in lo..j : IsNum(s[t])}
        IN  IF nums = {} THEN NaN
            ELSE RDiv(SumNums(s, lo, j), Num(Cardinality(nums), 1))]

\* Series.rolling(window=w).mean(): min_periods defaults to w, so a cell is
\* defined only when the w cells ending at it all hold a number.
RollingMean(s, w) ==
    [j \in 1..Len(s) |->
        IF j >= w /\ \A t \in (j - w + 1)..j : IsNum(s[t])
        THEN RDiv(SumRange(s, j - w + 1, j), Num(w, 1))
        ELSE NaN]

ToFix(v) == IF IsNum(v) THEN Num((v.n * FIX) \div v.d, FIX) ELSE v

\* One step of y[t] = (1 - alpha) * y[t-1] + alpha * x[t], alpha = 2 / (span + 1)
EwmStep(prev, x, span) ==
    IF IsNaN(x) THEN prev
    ELSE IF IsNaN(prev) THEN x
    ELSE Num(((span - 1) * prev.n + 2 * x.n) \div (span + 1), FIX)

\* The cells lo..hi of the recurrence, started from the cell before lo (seed);
\* the range is halved so that the evaluation stays shallow.
RECURSIVE EwmRange(_, _, _, _, _)
EwmRange(s, span, lo, hi, seed) ==
    IF lo > hi THEN <<>>
    ELSE IF lo = hi THEN <<EwmStep(seed, ToFix(s[lo]), span)>>
    ELSE LET mid == (lo + hi) \div 2
             left == EwmRange(s, span, lo, mid, seed)
         IN  left \o EwmRange(s, span, mid + 1, hi, left[Len(left)])

\* Series.ewm(span=span, adjust=False).mean(): seeded with the first cell,
\* no warm-up (min_periods = 0).
EwmMean(s, span) == EwmRange(s, span, 1, Len(s), NaN)

---------------------------------------------------------------------------
(* Indicators, main.py:75-95 *)

\* calculate_rsi with the sign of loss left as clip(upper=0) gives it
calculate_rsi_noneg(prices, window) ==
    LET delta == Diff(prices)
        gain == ClipLower0(delta)
        loss == ClipUpper0(delta)
        avg_gain == RollingMean(gain, window)
        avg_loss == RollingMean(loss, window)
        rs == [j \in 1..Len(prices) |-> RDiv(avg_gain[j], avg_loss[j])]
    IN  [j \in 1..Len(prices) |->
            RSub(Num(100, 1), RDiv(Num(100, 1), RAdd(Num(1, 1), rs[j])))]

calculate_rsi(prices, window) ==
    LET delta == Diff(prices)
        gain == ClipLower0(delta)
        loss == NegSeries(ClipUpper0(delta))
        avg_gain == RollingMean(gain, window)
        avg_loss == RollingMean(loss, window)
        rs == [j \in 1..Len(prices) |-> RDiv(avg_gain[j], avg_loss[j])]
    IN  [j \in 1..Len(prices) |->
            RSub(Num(100, 1), RDiv(Num(100, 1), RAdd(Num(1, 1), rs[j])))]

calculate_macd(prices, short, long, signal) ==
    LET ema_short == EwmMean(prices, short)
        ema_long == EwmMean(prices, long)
        macd == [j \in 1..Len(prices) |-> RSub(ema_short[j], ema_long[j])]
        signal_line == EwmMean(macd, signal)
    IN  [macd |-> macd, signal |-> signal_line]

simulate_mvrv(prices) ==
    LET realized_price == RollingMean(prices, MVRV_WINDOW)
    IN  [j \in 1..Len(prices) |-> RDiv(prices[j], realized_price[j])]

---------------------------------------------------------------------------
(* Price series the indicator functions are applied to on their own: two   *)
(* runs of constant daily change, or a zigzag alternating two changes.     *)

Deltas == {-1, 0, 1}

Min(a, b) == IF a < b THEN a ELSE b
Max(a, b) == IF a > b THEN a ELSE b

TwoRun(len, k, d1, d2) ==
    [j \in 1..len |-> Num(BasePrice + d1 * Min(j - 1, k) + d2 * Max(0, j - 1 - k), 1)]

ZigZag(len, d1, d2) ==
    [j \in 1..len |-> Num(BasePrice + d1 * (j \div 2) + d2 * ((j - 1) \div 2), 1)]

SeriesFamily ==
    {TwoRun(len, k, d1, d2) : len \in 0..MaxLen, k \in {0, 7, 14, 20}, d1 \in Deltas, d2 \in Deltas}
    \cup {ZigZag(len, d1, d2) : len \in 0..MaxLen, d1 \in Deltas, d2 \in Deltas}

---------------------------------------------------------------------------
(* Reporting, main.py:98-125 *)

\* format(x, ".2f"): the value rounded to hundredths (ties to even), or the
\* text nan / inf.
Fmt2(v) ==
    IF v.k = "nan" THEN [k |-> "nan", c |-> 0]
    ELSE IF v.k = "inf" THEN [k |-> "inf", c |-> v.n]
    ELSE LET q == (v.n * 100) \div v.d
             r == (v.n * 100) % v.d
         IN  [k |-> "num",
              c |-> IF 2 * r < v.d THEN q
                    ELSE IF 2 * r > v.d THEN q + 1
                    ELSE IF q % 2 = 0 THEN q ELSE q + 1]

\* the zone with <= in place of <
RsiZoneLe(rsi) ==
    IF RLe(rsi, Num(RSI_OVERSOLD, 1)) THEN "Oversold" ELSE "Neutral/Bullish"

RsiZone(rsi) == IF RLt(rsi, Num(RSI_OVERSOLD, 1)) THEN "Oversold" ELSE "Neutral/Bullish"

MacdTrend(macd, signal) == IF RGt(macd, signal) THEN "Bullish" ELSE "Bearish"

MvrvValuation(mvrv) == IF RLt(mvrv, Num(1, 1)) THEN "Undervalued" ELSE "Fairly Valued"

\* The f-string of generate_report, main.py:116-123 (the date is left out).
ReportText(asset, latest) ==
    [asset |-> asset,
     price |-> Fmt2(latest.Price),
     rsi |-> Fmt2(latest.RSI),
     rsiZone |-> RsiZone(latest.RSI),
     macd |-> Fmt2(latest.MACD),
     signal |-> Fmt2(latest.Signal),
     macdTrend |-> MacdTrend(latest.MACD, latest.Signal),
     mvrv |-> Fmt2(latest.MVRV),
     mvrvValuation |-> MvrvValuation(latest.MVRV)]

\* df.iloc[-1]
Latest(frame) ==
    LET n == Len(frame.Price)
    IN  [Price |-> frame.Price[n], RSI |-> frame.RSI[n], MACD |-> frame.MACD[n],
         Signal |-> frame.Signal[n], MVRV |-> frame.MVRV[n]]

\* f'{asset.lower()}_chart.png'
ChartFile(asset) ==
    CASE asset = "Gold" -> "gold_chart.png"
      [] asset = "Bitcoin" -> "bitcoin_chart.png"
      [] asset = "Ethereum" -> "ethereum_chart.png"

---------------------------------------------------------------------------
(* The module-level loop, main.py:128-143 *)

\* the keys of the dict assets, in insertion order
Assets == <<"Gold", "Bitcoin", "Ethereum">>
AssetSet == {Assets[n] : n \in 1..Len(Assets)}

Stages == {"fetch", "rsi", "macd", "mvrv", "plot", "report", "send"}

\* every lambda bound to the last key, as a closure over a loop variable is
FetchTargetLateBound(a) == Assets[Len(Assets)]

\* what the lambda of an asset queries
FetchTarget(a) == a

\* df.tail(DAYS).reset_index(drop=True)
TailRows(s, n) == IF Len(s) <= n THEN s ELSE SubSeq(s, Len(s) - n + 1, Len(s))

\* What a provider may answer with: no rows, a short history, and histories
\* long enough for every window (flat, rising, falling, alternating).
Payloads(target) ==
    IF target = "Gold"
    THEN {TwoRun(0, 0, 0, 0), TwoRun(30, 0, 0, 0), TwoRun(DAYS + 2, 0, 0, 1)}
    ELSE {TwoRun(0, 0, 0, 0), TwoRun(20, 0, 0, 1), TwoRun(29, 0, 0, 0),
          TwoRun(31, 0, 0, -1), ZigZag(32, 1, -1)}

NoFrame == [bound |-> FALSE, src |-> "", cols |-> {}, Price |-> <<>>, RSI |-> <<>>,
            MACD |-> <<>>, Signal |-> <<>>, MVRV |-> <<>>]

Frame(src, cols, prices) ==
    [bound |-> TRUE, src |-> src, cols |-> cols, Price |-> prices, RSI |-> <<>>,
     MACD |-> <<>>, Signal |-> <<>>, MVRV |-> <<>>]

\* fetch_gold_prices: an answer without "Time Series (Daily)" gives a
\* DataFrame with no columns at all; otherwise the last DAYS rows.
fetch_gold_prices(payload) ==
    IF Len(payload) = 0 THEN Frame("Gold", {}, <<>>)
    ELSE Frame("Gold", {"Date", "Price"}, TailRows(payload, DAYS))

\* fetch_crypto_prices: one row per returned price.
fetch_crypto_prices(coin, payload) == Frame(coin, {"Date", "Price"}, payload)

fetch_func(target, payload) ==
    IF target = "Gold" THEN fetch_gold_prices(payload)
    ELSE fetch_crypto_prices(target, payload)

asset == Assets[i]

NoFailure == [stage |-> "none", e |-> ""]

\* a fetch failure passed over, the rest of the body still run
HandlerSwallowFetch(stage) == IF stage = "fetch" THEN "rsi" ELSE "except"

\* an except clause that prints nothing
HandlerSilent(stage) == "loop"

\* where control goes when a statement of the try block raises: the except
\* clause of line 142
Handler(stage) == "except"

\* a try statement around the whole loop
AfterExceptAbort == "done"

\* where control goes after the except clause: the next iteration
AfterExcept == "loop"

\* send_alert without its try statement
SendAlertPropagates == FALSE

\* whether send_alert's own except clause (line 32) catches a delivery failure
SendAlertCatches == TRUE

Raise(stage, e) ==
    /\ pc' = Handler(stage)
    /\ failedAt' = [failedAt EXCEPT ![asset] = [stage |-> stage, e |-> e]]
    /\ UNCHANGED <<i, df, console, charts, outbox, okStages, attempts, arg, res>>

Ok(stage) == okStages' = [okStages EXCEPT ![asset] = @ \cup {stage}]

Init ==
    /\ pc = "loop"
    /\ i = 0
    /\ df = NoFrame
    /\ console = <<>>
    /\ charts = {}
    /\ outbox = <<>>
    /\ okStages = [a \in AssetSet |-> {}]
    /\ failedAt = [a \in AssetSet |-> NoFailure]
    /\ attempts = [a \in AssetSet |-> 0]
    /\ arg = <<>>
    /\ res = [fn |-> "none"]

\* line 134: the for statement takes the next asset, or the loop ends
ForNext ==
    /\ pc = "loop"
    /\ IF i < Len(Assets)
       THEN /\ i' = i + 1
            /\ pc' = "fetch"
            /\ attempts' = [attempts EXCEPT ![Assets[i + 1]] = @ + 1]
       ELSE /\ pc' = "done"
            /\ UNCHANGED <<i, attempts>>
    /\ UNCHANGED <<df, console, charts, outbox, okStages, failedAt, arg, res>>

\* line 136: df = fetch_func()
Fetch ==
    /\ pc = "fetch"
    /\ \/ /\ \E payload \in Payloads(FetchTarget(asset)) :
                df' = fetch_func(FetchTarget(asset), payload)
          /\ pc' = "rsi"
          /\ Ok("fetch")
          /\ UNCHANGED <<i, console, charts, outbox, failedAt, attempts, arg, res>>
       \/ Raise("fetch", "FetchError")

\* line 137: df['RSI'] = calculate_rsi(df['Price'])
Rsi ==
    /\ pc = "rsi"
    /\ \/ Raise("rsi", "Exception")
       \/ /\ df.bound /\ "Price" \in df.cols
          /\ df' = [df EXCEPT !.RSI = calculate_rsi(df.Price, RSI_WINDOW),
                              !.cols = @ \cup {"RSI"}]
          /\ pc' = "macd"
          /\ Ok("rsi")
          /\ UNCHANGED <<i, console, charts, outbox, failedAt, attempts, arg, res>>
       \/ /\ ~(df.bound /\ "Price" \in df.cols)
          /\ Raise("rsi", "KeyError")

\* line 138: df['MACD'], df['Signal'] = calculate_macd(df['Price'])
Macd ==
    /\ pc = "macd"
    /\ \/ Raise("macd", "Exception")
       \/ /\ df.bound /\ "Price" \in df.cols
          /\ LET m == calculate_macd(df.Price, MACD_SHORT, MACD_LONG, MACD_SIGNAL)
             IN  df' = [df EXCEPT !.MACD = m.macd, !.Signal = m.signal,
                                  !.cols = @ \cup {"MACD", "Signal"}]
          /\ pc' = "mvrv"
          /\ Ok("macd")
          /\ UNCHANGED <<i, console, charts, outbox, failedAt, attempts, arg, res>>
       \/ /\ ~(df.bound /\ "Price" \in df.cols)
          /\ Raise("macd", "KeyError")

\* line 139: df['MVRV'] = simulate_mvrv(df['Price'])
Mvrv ==
    /\ pc = "mvrv"
    /\ \/ Raise("mvrv", "Exception")
       \/ /\ df.bound /\ "Price" \in df.cols
          /\ df' = [df EXCEPT !.MVRV = simulate_mvrv(df.Price),
                              !.cols = @ \cup {"MVRV"}]
          /\ pc' = "plot"
          /\ Ok("mvrv")
          /\ UNCHANGED <<i, console, charts, outbox, failedAt, attempts, arg, res>>
       \/ /\ ~(df.bound /\ "Price" \in df.cols)
          /\ Raise("mvrv", "KeyError")

AllCols == {"Date", "Price", "RSI", "MACD", "Signal", "MVRV"}

\* line 140: plot_indicators(df, asset), which ends with savefig
Plot ==
    /\ pc = "plot"
    /\ \/ Raise("plot", "Exception")
       \/ /\ df.bound /\ AllCols \subseteq df.cols
          /\ charts' = charts \cup {[file |-> ChartFile(asset), src |-> df.src,
                                     prices |-> df.Price]}
          /\ pc' = "report"
          /\ Ok("plot")
          /\ UNCHANGED <<i, df, console, outbox, failedAt, attempts, arg, res>>
       \/ /\ ~(df.bound /\ AllCols \subseteq df.cols)
          /\ Raise("plot", "KeyError")

\* line 141, first half: generate_report up to print(report), lines 115-124
Report ==
    /\ pc = "report"
    /\ \/ Raise("report", "Exception")
       \/ /\ df.bound /\ AllCols \subseteq df.cols /\ Len(df.Price) > 0
          /\ console' = Append(console,
                [kind |-> "report", asset |-> asset, src |-> df.src,
                 rows |-> Len(df.Price), text |-> ReportText(asset, Latest(df))])
          /\ pc' = "send"
          /\ Ok("report")
          /\ UNCHANGED <<i, df, charts, outbox, failedAt, attempts, arg, res>>
       \/ /\ ~(df.bound /\ AllCols \subseteq df.cols /\ Len(df.Price) > 0)
          /\ Raise("report", "IndexError")

\* line 125: send_alert(subject, report), lines 18-33
Send ==
    /\ pc = "send"
    /\ LET report == console[Len(console)]
       IN  \/ /\ outbox' = Append(outbox, [subject |-> asset, src |-> report.src,
                                            rows |-> report.rows, body |-> report.text])
              /\ console' = Append(console, [kind |-> "alert_sent", asset |-> asset])
              /\ pc' = "loop"
              /\ Ok("send")
              /\ UNCHANGED <<i, df, charts, failedAt, attempts, arg, res>>
           \/ /\ SendAlertCatches
              /\ console' = Append(console, [kind |-> "alert_failed", asset |-> asset,
                                               reason |-> "SMTPException"])
              /\ pc' = "loop"
              /\ failedAt' = [failedAt EXCEPT ![asset] = [stage |-> "send", e |-> "SMTPException"]]
              /\ UNCHANGED <<i, df, charts, outbox, okStages, attempts, arg, res>>
           \/ /\ ~SendAlertCatches
              /\ Raise("send", "SMTPException")

\* lines 142-143: print(f"Error processing {asset}: {e}")
Except ==
    /\ pc = "except"
    /\ console' = Append(console, [kind |-> "error", asset |-> asset,
                                   reason |-> failedAt[asset].e])
    /\ pc' = AfterExcept
    /\ UNCHANGED <<i, df, charts, outbox, okStages, failedAt, attempts, arg, res>>

Next == ForNext \/ Fetch \/ Rsi \/ Macd \/ Mvrv \/ Plot \/ Report \/ Send \/ Except

Spec == Init /\ [][Next]_vars

\* Every call returns or raises: the interpreter runs the next statement.
FairSpec == Spec /\ WF_vars(Next)

---------------------------------------------------------------------------
(* The indicator functions applied on their own to a price series *)

Idle ==
    /\ pc = "idle"
    /\ i = 0
    /\ df = NoFrame
    /\ console = <<>>
    /\ charts = {}
    /\ outbox = <<>>
    /\ okStages = [a \in AssetSet |-> {}]
    /\ failedAt = [a \in AssetSet |-> NoFailure]
    /\ attempts = [a \in AssetSet |-> 0]

IndInit ==
    /\ Idle
    /\ arg \in SeriesFamily
    /\ res = [fn |-> "none"]

ApplyRSI ==
    /\ res' = [fn |-> "rsi", rsi |-> calculate_rsi(arg, RSI_WINDOW)]
    /\ UNCHANGED <<pc, i, df, console, charts, outbox, okStages, failedAt, attempts, arg>>

ApplyMACD ==
    /\ res' = [fn |-> "macd",
               cols |-> calculate_macd(arg, MACD_SHORT, MACD_LONG, MACD_SIGNAL)]
    /\ UNCHANGED <<pc, i, df, console, charts, outbox, okStages, failedAt, attempts, arg>>

ApplyMVRV ==
    /\ res' = [fn |-> "mvrv", mvrv |-> simulate_mvrv(arg)]
    /\ UNCHANGED <<pc, i, df, console, charts, outbox, okStages, failedAt, attempts, arg>>

IndNext == ApplyRSI \/ ApplyMACD \/ ApplyMVRV

IndSpec == IndInit /\ [][IndNext]_vars

---------------------------------------------------------------------------
(* generate_report's text for a latest row given directly *)

RsiCells == {NaN, Num(0, 1), Num(2999, 100), Num(30, 1), Num(3001, 100),
             Num(70, 1), Num(100, 1)}
MacdCells == {NaN, Num(-1, 2), Num(0, 1), Num(1, 2)}
MvrvCells == {NaN, Num(99, 100), Num(1, 1), Num(101, 100)}

LatestRows ==
    [Price : {Num(BasePrice, 1)}, RSI : RsiCells, MACD : MacdCells,
     Signal : MacdCells, MVRV : MvrvCells]

RepInit ==
    /\ Idle
    /\ arg \in LatestRows
    /\ res = [fn |-> "none"]

ApplyReport ==
    /\ \E a \in AssetSet : res' = [fn |-> "report", text |-> ReportText(a, arg)]
    /\ UNCHANGED <<pc, i, df, console, charts, outbox, okStages, failedAt, attempts, arg>>

RepNext == ApplyReport

RepSpec == RepInit /\ [][RepNext]_vars

---------------------------------------------------------------------------
(* Properties of the run (Spec, FairSpec) *)

Reports(a) ==
    {j \in 1..Len(console) : console[j].kind = "report" /\ console[j].asset = a}

Warnings(a) ==
    {j \in 1..Len(console) :
        console[j].kind = "error" /\ console[j].asset = a /\ console[j].reason # ""}

AlertFailures(a) ==
    {j \in 1..Len(console) : console[j].kind = "alert_failed" /\ console[j].asset = a}

ChartOf(a) == {c \in charts : c.file = ChartFile(a)}

\* the asset at position n has left the loop body
Finished(n) == n < i \/ (n = i /\ pc \in {"loop", "done"})

\* C1: an exception in any stage of one asset never keeps a later asset from
\* being processed: every asset that has left the loop body was attempted once
\* and, unless one of its own stages before the notification raised, has its
\* report on the console; the run ends only after all three were attempted.
C1_FailureIsolation ==
    /\ \A n \in 1..Len(Assets) :
          Finished(n) =>
             /\ attempts[Assets[n]] = 1
             /\ failedAt[Assets[n]].stage \in {"none", "send"} => Reports(Assets[n]) # {}
    /\ pc = "done" => \A n \in 1..Len(Assets) : Finished(n)

C1_Witness ==
    /\ pc = "done"
    /\ failedAt["Gold"].stage = "fetch"
    /\ Reports("Bitcoin") # {}
    /\ Reports("Ethereum") # {}

\* C2: a delivery failure stays inside send_alert: the report is the last
\* console line when the delivery attempt starts, and an asset whose delivery
\* failed keeps its report, has the failure logged by send_alert, gets no
\* "Error processing" warning, and the loop goes on to the remaining assets.
C2_AlertFailureContained ==
    /\ pc = "send" =>
          /\ Len(console) > 0
          /\ console[Len(console)].kind = "report"
          /\ console[Len(console)].asset = asset
    /\ \A n \in 1..Len(Assets) :
          failedAt[Assets[n]].stage = "send" =>
             /\ Reports(Assets[n]) # {}
             /\ AlertFailures(Assets[n]) # {}
             /\ Warnings(Assets[n]) = {}
             /\ Finished(n)
    /\ pc = "done" => \A a \in AssetSet : attempts[a] = 1

C2_Witness ==
    /\ pc = "done"
    /\ failedAt["Gold"].stage = "send"
    /\ Reports("Gold") # {}
    /\ Reports("Bitcoin") # {}

C4_ChartOnlyAfterCompute ==
    \A a \in AssetSet :
        ChartOf(a) # {} =>
           /\ {"fetch", "rsi", "macd", "mvrv"} \subseteq okStages[a]
           /\ failedAt[a].stage \notin {"fetch", "rsi", "macd", "mvrv"}

C4_Witness ==
    \E a, b \in AssetSet :
        /\ failedAt[a].stage \in {"fetch", "rsi", "macd", "mvrv"}
        /\ ChartOf(a) = {}
        /\ ChartOf(b) # {}

HasUndefined(text) ==
    \/ text.rsi.k = "nan"
    \/ text.macd.k = "nan"
    \/ text.signal.k = "nan"
    \/ text.mvrv.k = "nan"

\* C5: for a fetched series shorter than 30 points no report holding an
\* undefined indicator value is printed or passed to send_alert.
C5_ShortSeriesNoUndefinedReport ==
    /\ \A j \in 1..Len(console) :
          (console[j].kind = "report" /\ console[j].rows < MVRV_WINDOW)
             => ~HasUndefined(console[j].text)
    /\ \A j \in 1..Len(outbox) :
          outbox[j].rows < MVRV_WINDOW => ~HasUndefined(outbox[j].body)

\* C10: every chart, report and mail of an asset is made from the frame
\* fetched for that asset, also after a failed fetch has left another
\* asset's frame in df.
C10_OwnFrame ==
    /\ \A a \in AssetSet : \A c \in ChartOf(a) : c.src = a
    /\ \A j \in 1..Len(console) :
          console[j].kind = "report" => console[j].src = console[j].asset
    /\ \A j \in 1..Len(outbox) : outbox[j].src = outbox[j].subject

\* a later asset reports after a failed fetch left an earlier frame in df
C10_Witness ==
    /\ Reports("Gold") # {}
    /\ failedAt["Bitcoin"].stage = "fetch"
    /\ Reports("Ethereum") # {}
    /\ ChartOf("Ethereum") # {}

---------------------------------------------------------------------------
(* Properties of generate_report's classification (RepSpec) *)

\* C6: the zone is Oversold iff RSI < 30, the trend Bullish iff MACD > Signal,
\* the valuation Undervalued iff MVRV < 1.0; the other label otherwise, so
\* that RSI = 30, MACD = Signal and MVRV = 1.0 take the second label.
C6_Classification ==
    res.fn = "report" =>
       /\ res.text.rsiZone =
             (IF IsNum(arg.RSI) /\ arg.RSI.n < 30 * arg.RSI.d
              THEN "Oversold" ELSE "Neutral/Bullish")
       /\ res.text.macdTrend =
             (IF IsNum(arg.MACD) /\ IsNum(arg.Signal)
                 /\ arg.MACD.n * arg.Signal.d > arg.Signal.n * arg.MACD.d
              THEN "Bullish" ELSE "Bearish")
       /\ res.text.mvrvValuation =
             (IF IsNum(arg.MVRV) /\ arg.MVRV.n < arg.MVRV.d
              THEN "Undervalued" ELSE "Fairly Valued")

C6_Witness ==
    /\ res.fn = "report"
    /\ arg.RSI = Num(30, 1) /\ res.text.rsiZone = "Neutral/Bullish"
    /\ arg.MACD = arg.Signal /\ IsNum(arg.MACD) /\ res.text.macdTrend = "Bearish"
    /\ arg.MVRV = Num(1, 1) /\ res.text.mvrvValuation = "Fairly Valued"

---------------------------------------------------------------------------
(* Properties of the indicator functions (IndSpec) *)

PriceAt(j) == arg[j].n

RECURSIVE GainSum(_, _)
GainSum(lo, hi) ==
    IF lo > hi THEN 0
    ELSE GainSum(lo, hi - 1) + Max(PriceAt(hi) - PriceAt(hi - 1), 0)

RECURSIVE LossSum(_, _)
LossSum(lo, hi) ==
    IF lo > hi THEN 0
    ELSE LossSum(lo, hi - 1) + Max(PriceAt(hi - 1) - PriceAt(hi), 0)

\* C7: at every index with a full window of 14 deltas the RSI is defined, is
\* 100 when the average loss is 0 and the average gain positive, and is 50
\* when both are 0.
C7_ZeroLossRule ==
    res.fn = "rsi" =>
       \A j \in (RSI_WINDOW + 1)..Len(arg) :
          LET g == GainSum(j - RSI_WINDOW + 1, j)
              l == LossSum(j - RSI_WINDOW + 1, j)
          IN  /\ ~IsNaN(res.rsi[j])
              /\ (l = 0 /\ g > 0) => REq(res.rsi[j], Num(100, 1))
              /\ (l = 0 /\ g = 0) => REq(res.rsi[j], Num(50, 1))

\* C8 as stated: RSI is undefined at every index below 14, MVRV at every
\* index below 30, and MACD and Signal are defined at every index.
C8_WarmUpAsStated ==
    /\ res.fn = "rsi" =>
          /\ Len(res.rsi) = Len(arg)
          /\ \A j \in 1..Len(arg) : j - 1 < RSI_WINDOW => IsNaN(res.rsi[j])
    /\ res.fn = "mvrv" =>
          /\ Len(res.mvrv) = Len(arg)
          /\ \A j \in 1..Len(arg) : j - 1 < MVRV_WINDOW => IsNaN(res.mvrv[j])
    /\ res.fn = "macd" =>
          /\ Len(res.cols.macd) = Len(arg) /\ Len(res.cols.signal) = Len(arg)
          /\ \A j \in 1..Len(arg) : IsNum(res.cols.macd[j]) /\ IsNum(res.cols.signal[j])

\* C8 amended: RSI is undefined at every index below 14, MVRV at every index
\* below 29 (index 29, the 30th price, is the first defined one), and MACD
\* and Signal are defined at every index.
C8_WarmUp ==
    /\ res.fn = "rsi" =>
          /\ Len(res.rsi) = Len(arg)
          /\ \A j \in 1..Len(arg) : j - 1 < RSI_WINDOW => IsNaN(res.rsi[j])
    /\ res.fn = "mvrv" =>
          /\ Len(res.mvrv) = Len(arg)
          /\ \A j \in 1..Len(arg) : j - 1 < MVRV_WINDOW - 1 => IsNaN(res.mvrv[j])
          /\ Len(arg) >= MVRV_WINDOW => IsNum(res.mvrv[MVRV_WINDOW])
    /\ res.fn = "macd" =>
          /\ Len(res.cols.macd) = Len(arg) /\ Len(res.cols.signal) = Len(arg)
          /\ \A j \in 1..Len(arg) : IsNum(res.cols.macd[j]) /\ IsNum(res.cols.signal[j])

C8_Witness ==
    /\ res.fn = "mvrv"
    /\ Len(arg) > MVRV_WINDOW
    /\ IsNaN(res.mvrv[MVRV_WINDOW - 1])
    /\ IsNum(res.mvrv[MVRV_WINDOW])

\* C9: every defined RSI value lies in [0, 100].
C9_RsiBounded ==
    res.fn = "rsi" =>
       \A j \in 1..Len(arg) :
          ~IsNaN(res.rsi[j]) =>
             /\ RLe(Zero, res.rsi[j])
             /\ RLe(res.rsi[j], Num(100, 1))

C9_Witness ==
    /\ res.fn = "rsi"
    /\ \E j \in 1..Len(arg) : RLt(Zero, res.rsi[j]) /\ RLt(res.rsi[j], Num(100, 1))
    /\ \E j \in 1..Len(arg) : REq(res.rsi[j], Num(100, 1))
    /\ \E j \in 1..Len(arg) : REq(res.rsi[j], Zero)

=============================================================================
